---------------------------- MODULE Spec2Model ----------------------------
(***************************************************************************)
(* Model of the legacy-claim migration (package claim: newClaim,           *)
(* setMetaData, setFee, migrateV1Claim, migrateV2Claim, migrateV3Claim)    *)
(* and of the ytsync command's flag validation (package cmd: init,         *)
(* ytSync).                                                                *)
(*                                                                         *)
(* Go pointers are addresses into a heap (a sequence of objects, address = *)
(* index, NULL = 0).  Protobuf sub-messages (Claim, Stream, Metadata,      *)
(* Source, Fee, Signature) are heap objects.  The optional scalar fields   *)
(* the code fills with the address of a fresh local (&author, &amount, ..) *)
(* are options held inline: None is the nil pointer, Some(v) a pointer to  *)
(* a private copy of v.  Metadata.Thumbnail and Metadata.LicenseUrl are    *)
(* assigned the caller's *string itself, so they are addresses of String   *)
(* cells.  Strings whose characters matter (digests, addresses) are        *)
(* sequences of one-character strings.                                     *)
(***************************************************************************)
EXTENDS Integers, Sequences, FiniteSets, TLC

VARIABLES
    heap,        \* the Go heap: sequence of objects
    rec,         \* rec[c]: the legacy record (vClaim) call c was given
    pc,          \* pc[c]: position of call c inside its migrator
    pbClaim,     \* pbClaim[c]: the local pbClaim of call c (an address)
    ret,         \* ret[c]: what call c returned: [claim, err], once done
    mutated,     \* mutated[c]: the caller has written to the claim of call c
    cmdpc,       \* position of the ytsync command
    args,        \* the command line and environment of the ytsync command
    stopOnError, \* package variable stopOnError
    maxTries,    \* package variable maxTries
    syncStatus,  \* package variable syncStatus
    limit,       \* package variable limit
    logged,      \* the error message ytSync logged before returning, if any
    sm           \* the sync manager: "none", "created", "started"

migVars == <<heap, rec, pc, pbClaim, ret, mutated>>
cmdVars == <<cmdpc, args, stopOnError, maxTries, syncStatus, limit, logged, sm>>
vars == <<heap, rec, pc, pbClaim, ret, mutated,
          cmdpc, args, stopOnError, maxTries, syncStatus, limit, logged, sm>>

-----------------------------------------------------------------------------
(* Bounds of the model *)

\* longest content digest string
MaxDigestLen == 3
\* number of migrator calls running interleaved in SpecConc
NumCalls == 2
\* largest --max-tries value a user supplies
MaxTriesArg == 4

-----------------------------------------------------------------------------
(* Basic values *)

NULL == 0
None == <<>>
Some(v) == <<v>>

RECURSIVE SeqsUpTo(_, _)
\* all sequences over S of length at most n
SeqsUpTo(S, n) ==
    IF n = 0 THEN {<<>>}
    ELSE LET shorter == SeqsUpTo(S, n - 1)
         IN  shorter \cup {Append(s, x) : s \in {t \in shorter : Len(t) = n - 1}, x \in S}

-----------------------------------------------------------------------------
(* encoding/hex *)

hextable == <<"0", "1", "2", "3", "4", "5", "6", "7", "8", "9",
              "a", "b", "c", "d", "e", "f">>
hextableUpper == <<"0", "1", "2", "3", "4", "5", "6", "7", "8", "9",
                   "A", "B", "C", "D", "E", "F">>

\* reverseHexTable[c]: the value of hex digit c, 255 for any other byte
reverseHexTable(c) ==
    IF \E i \in 1..16 : hextable[i] = c
    THEN (CHOOSE i \in 1..16 : hextable[i] = c) - 1
    ELSE IF \E i \in 1..16 : hextableUpper[i] = c
    THEN (CHOOSE i \in 1..16 : hextableUpper[i] = c) - 1
    ELSE 255

RECURSIVE hexDecode(_, _, _)
\* hex.Decode: j is the (1-based) index of the second character of the pair
\* to decode, dst the bytes decoded so far.  The bytes decoded before an
\* error are kept.
hexDecode(src, j, dst) ==
    IF j <= Len(src)
    THEN LET a == reverseHexTable(src[j - 1])
             b == reverseHexTable(src[j])
         IN  IF a > 15 \/ b > 15
             THEN [bytes |-> dst, err |-> "InvalidByteError"]
             ELSE hexDecode(src, j + 2, Append(dst, a * 16 + b))
    ELSE IF Len(src) % 2 = 1
    THEN IF reverseHexTable(src[j - 1]) > 15
         THEN [bytes |-> dst, err |-> "InvalidByteError"]
         ELSE [bytes |-> dst, err |-> "ErrLength"]
    ELSE [bytes |-> dst, err |-> "nil"]

\* DecodeString dropping an odd trailing character instead of reporting it
DecodeString_IgnoreOdd(s) == hexDecode(SubSeq(s, 1, Len(s) - (Len(s) % 2)), 2, <<>>)

\* hex.DecodeString(s): returns src[:n], err
DecodeString(s) == hexDecode(s, 2, <<>>)

-----------------------------------------------------------------------------
(* btcutil/base58 *)

b58alphabet ==
    <<"1", "2", "3", "4", "5", "6", "7", "8", "9",
      "A", "B", "C", "D", "E", "F", "G", "H", "J", "K", "L", "M", "N", "P",
      "Q", "R", "S", "T", "U", "V", "W", "X", "Y", "Z",
      "a", "b", "c", "d", "e", "f", "g", "h", "i", "j", "k", "m", "n", "o",
      "p", "q", "r", "s", "t", "u", "v", "w", "x", "y", "z">>

\* b58[c]: the digit value of character c, 255 when c is not in the alphabet
b58(c) ==
    IF \E i \in 1..58 : b58alphabet[i] = c
    THEN (CHOOSE i \in 1..58 : b58alphabet[i] = c) - 1
    ELSE 255

RECURSIVE b58Value(_)
\* the number a string of valid base58 digits denotes
b58Value(b) ==
    IF b = <<>> THEN 0
    ELSE b58Value(SubSeq(b, 1, Len(b) - 1)) * 58 + b58(b[Len(b)])

RECURSIVE bigBytes(_)
\* big.Int.Bytes: big-endian bytes of n, empty for 0
bigBytes(n) ==
    IF n = 0 THEN <<>> ELSE Append(bigBytes(n \div 256), n % 256)

RECURSIVE numZeros(_)
\* number of leading '1' characters (each stands for a leading zero byte)
numZeros(b) ==
    IF b = <<>> \/ b[1] # "1" THEN 0 ELSE 1 + numZeros(Tail(b))

\* base58.Decode(b): empty on any character outside the alphabet
base58Decode(b) ==
    IF \E i \in 1..Len(b) : b58(b[i]) = 255
    THEN <<>>
    ELSE [i \in 1..numZeros(b) |-> 0] \o bigBytes(b58Value(b))

-----------------------------------------------------------------------------
(* Generated protobuf enums (package pb) and package constants *)

lbrySDHash == "lbry_sd_hash"

Fee__0_0_1 == "Fee._0_0_1"
Metadata__0_1_0 == "Metadata._0_1_0"
Source__0_0_1 == "Source._0_0_1"
Stream__0_0_1 == "Stream._0_0_1"
Claim__0_0_1 == "Claim._0_0_1"
Claim_streamType == "streamType"
Fee_LBC == "LBC"
Fee_BTC == "BTC"
Fee_USD == "USD"

KnownLanguages == {"en"}
\* pb.Metadata_Language_value[s]: a Go map lookup, the zero value
\* (UNKNOWN_LANGUAGE) for a key that is not in the map
Metadata_Language_value(s) ==
    IF s \in KnownLanguages THEN s ELSE "UNKNOWN_LANGUAGE"

\* pb.Source_SourceTypes_value[s]
Source_SourceTypes_value(s) ==
    IF s = "lbry_sd_hash" THEN "lbry_sd_hash" ELSE "UNKNOWN_SOURCE_TYPE"

-----------------------------------------------------------------------------
(* Heap navigation: the generated getters *)

GetStream(h, claim) == h[claim.Stream]
GetMetadataAddr(h, claim) == GetStream(h, claim).Metadata
GetSourceAddr(h, claim) == GetStream(h, claim).Source
GetFeeAddr(h, claim) == h[GetMetadataAddr(h, claim)].Fee

-----------------------------------------------------------------------------
(* package claim *)

\* the body of newClaim: six allocations (claim, stream, metadata, source,
\* signature, fee, at base+1 .. base+6), linked, then the version tags and
\* the claim type set
skeleton(base) ==
    LET streamA   == base + 2
        metadataA == base + 3
        sourceA   == base + 4
        pubSigA   == base + 5
        feeA      == base + 6
        claimObj  == [kind |-> "Claim",
                      Version |-> Some(Claim__0_0_1),
                      ClaimType |-> Some(Claim_streamType),
                      Stream |-> streamA,
                      PublisherSignature |-> pubSigA]
        streamObj == [kind |-> "Stream",
                      Version |-> Some(Stream__0_0_1),
                      Metadata |-> metadataA,
                      Source |-> sourceA]
        metaObj   == [kind |-> "Metadata",
                      Version |-> Some(Metadata__0_1_0),
                      Author |-> None, Description |-> None,
                      Language |-> None, License |-> None,
                      Title |-> None, Thumbnail |-> NULL,
                      Nsfw |-> None, LicenseUrl |-> NULL,
                      Fee |-> feeA]
        sourceObj == [kind |-> "Source",
                      Version |-> Some(Source__0_0_1),
                      ContentType |-> None, SourceType |-> None,
                      Source |-> <<>>]
        sigObj    == [kind |-> "Signature"]
        feeObj    == [kind |-> "Fee",
                      Version |-> Some(Fee__0_0_1),
                      Amount |-> None, Currency |-> None,
                      Address |-> <<>>]
    IN  <<claimObj, streamObj, metaObj, sourceObj, sigObj, feeObj>>

\* newClaim with the Metadata version tag of the previous schema generation
newClaim_OldMetadataVersion(h) ==
    [heap |-> h \o [skeleton(Len(h)) EXCEPT ![3].Version = Some("Metadata._0_0_3")],
     ptr  |-> Len(h) + 1]

\* func newClaim() *pb.Claim: the new heap and the address of the claim
newClaim(h) ==
    [heap |-> h \o skeleton(Len(h)), ptr |-> Len(h) + 1]

\* setMetaData writing into a deep copy of its by-value argument: nothing
\* reaches the caller's claim
setMetaData_OnCopy(h, claim, author, description, language, license, licenseURL, title, thumbnail, nsfw) == h

\* setMetaData writing into one Metadata kept for all calls (the first one
\* ever allocated) instead of the Metadata of its argument
setMetaData_Shared(h, claim, author, description, language, license, licenseURL, title, thumbnail, nsfw) ==
    LET md == CHOOSE a \in 1..Len(h) :
                  /\ h[a].kind = "Metadata"
                  /\ \A b \in 1..(a - 1) : h[b].kind # "Metadata"
    IN  [h EXCEPT ![md].Author = Some(author),
                  ![md].Description = Some(description),
                  ![md].Language = Some(language),
                  ![md].License = Some(license),
                  ![md].Title = Some(title),
                  ![md].Thumbnail = thumbnail,
                  ![md].Nsfw = Some(nsfw),
                  ![md].LicenseUrl = licenseURL]

\* func setMetaData(claim pb.Claim, ...): claim is a COPY of the Claim
\* struct; the getters follow the copy's Stream pointer, so the writes land
\* in the Metadata object the original claim points to.
setMetaData(h, claim, author, description, language, license, licenseURL, title, thumbnail, nsfw) ==
    LET md == GetMetadataAddr(h, claim)
    IN  [h EXCEPT ![md].Author = Some(author),
                  ![md].Description = Some(description),
                  ![md].Language = Some(language),
                  ![md].License = Some(license),
                  ![md].Title = Some(title),
                  ![md].Thumbnail = thumbnail,
                  ![md].Nsfw = Some(nsfw),
                  ![md].LicenseUrl = licenseURL]

\* feeChoice looking at the LBC branch first
feeChoice_LBCFirst(fee) ==
    IF fee.LBC # None
    THEN [amount |-> fee.LBC[1].Amount, currency |-> Fee_LBC, address |-> fee.LBC[1].Address]
    ELSE IF fee.BTC # None
    THEN [amount |-> fee.BTC[1].Amount, currency |-> Fee_BTC, address |-> fee.BTC[1].Address]
    ELSE IF fee.USD # None
    THEN [amount |-> fee.USD[1].Amount, currency |-> Fee_USD, address |-> fee.USD[1].Address]
    ELSE [amount |-> 0, currency |-> Fee_LBC, address |-> <<>>]

\* the branch of the fee descriptor setFee reads: BTC, else LBC, else USD
\* (lines 128-140); the defaults when no branch is populated
feeChoice(fee) ==
    IF fee.BTC # None
    THEN [amount |-> fee.BTC[1].Amount, currency |-> Fee_BTC, address |-> fee.BTC[1].Address]
    ELSE IF fee.LBC # None
    THEN [amount |-> fee.LBC[1].Amount, currency |-> Fee_LBC, address |-> fee.LBC[1].Address]
    ELSE IF fee.USD # None
    THEN [amount |-> fee.USD[1].Amount, currency |-> Fee_USD, address |-> fee.USD[1].Address]
    ELSE [amount |-> 0, currency |-> Fee_LBC, address |-> <<>>]

\* setFee leaving the Fee untouched when no branch is populated
setFee_SkipEmpty(h, fee, p) ==
    IF fee # None /\ (fee[1].BTC # None \/ fee[1].LBC # None \/ fee[1].USD # None)
    THEN LET c == feeChoice(fee[1])
             f == GetFeeAddr(h, h[p])
         IN  [h EXCEPT ![f].Amount = Some(c.amount),
                       ![f].Currency = Some(c.currency),
                       ![f].Address = base58Decode(c.address)]
    ELSE h

\* func setFee(fee *Fee, pbClaim *pb.Claim): nothing at all when fee is nil
setFee(h, fee, p) ==
    IF fee # None
    THEN LET c == feeChoice(fee[1])
             f == GetFeeAddr(h, h[p])
         IN  [h EXCEPT ![f].Amount = Some(c.amount),
                       ![f].Currency = Some(c.currency),
                       ![f].Address = base58Decode(c.address)]
    ELSE h

\* the assignment left out
clearSignature_Noop(h, p) == h

\* pbClaim.PublisherSignature = nil
clearSignature(h, p) == [h EXCEPT ![p].PublisherSignature = NULL]

\* the setMetaData call of migrateV1Claim: no license URL, nsfw false
v1MetaData(h, vClaim, p) ==
    setMetaData(h, h[p], vClaim.Author, vClaim.Description,
                Metadata_Language_value(vClaim.Language),
                vClaim.License, NULL, vClaim.Title, vClaim.Thumbnail, FALSE)

\* the setMetaData call of migrateV2Claim
v2MetaData(h, vClaim, p) ==
    setMetaData(h, h[p], vClaim.Author, vClaim.Description,
                Metadata_Language_value(vClaim.Language),
                vClaim.License, vClaim.LicenseURL, vClaim.Title,
                vClaim.Thumbnail, vClaim.NSFW)

\* the setMetaData call of migrateV3Claim
v3MetaData(h, vClaim, p) ==
    setMetaData(h, h[p], vClaim.Author, vClaim.Description,
                Metadata_Language_value(vClaim.Language),
                vClaim.License, vClaim.LicenseURL, vClaim.Title,
                vClaim.Thumbnail, vClaim.NSFW)

\* the setMetaData call of the migrator of vClaim's schema version
metaData(h, vClaim, p) ==
    CASE vClaim.Version = "V1" -> v1MetaData(h, vClaim, p)
      [] vClaim.Version = "V2" -> v2MetaData(h, vClaim, p)
      [] vClaim.Version = "V3" -> v3MetaData(h, vClaim, p)

\* Source.ContentType = &vClaim.ContentType; Source.SourceType = &sourceType
setSource(h, vClaim, p) ==
    LET s == GetSourceAddr(h, h[p])
    IN  [h EXCEPT ![s].ContentType = Some(vClaim.ContentType),
                  ![s].SourceType = Some(Source_SourceTypes_value(lbrySDHash))]

\* src, err := hex.DecodeString(...); Source.Source = src; return pbClaim, err
decodeDigest(h, vClaim, p) ==
    LET d == DecodeString(vClaim.Sources.LbrySDHash)
        s == GetSourceAddr(h, h[p])
    IN  [heap |-> [h EXCEPT ![s].Source = d.bytes],
         claim |-> p,
         err |-> d.err]

\* the migrators, each run as one sequential call on heap h: the result is
\* the heap, the returned claim and the returned error
migrateV1Claim(h, vClaim) ==
    LET n  == newClaim(h)
        h1 == clearSignature(n.heap, n.ptr)
        h2 == setFee(h1, vClaim.Fee, n.ptr)
        h3 == v1MetaData(h2, vClaim, n.ptr)
        h4 == setSource(h3, vClaim, n.ptr)
    IN  decodeDigest(h4, vClaim, n.ptr)

migrateV2Claim(h, vClaim) ==
    LET n  == newClaim(h)
        h1 == clearSignature(n.heap, n.ptr)
        h2 == setFee(h1, vClaim.Fee, n.ptr)
        h3 == v2MetaData(h2, vClaim, n.ptr)
        h4 == setSource(h3, vClaim, n.ptr)
    IN  decodeDigest(h4, vClaim, n.ptr)

migrateV3Claim(h, vClaim) ==
    LET n  == newClaim(h)
        h1 == clearSignature(n.heap, n.ptr)
        h2 == setFee(h1, vClaim.Fee, n.ptr)
        h3 == v3MetaData(h2, vClaim, n.ptr)
        h4 == setSource(h3, vClaim, n.ptr)
    IN  decodeDigest(h4, vClaim, n.ptr)

\* the migrator vClaim's type selects, run as one sequential call
migrateClaim(h, vClaim) ==
    CASE vClaim.Version = "V1" -> migrateV1Claim(h, vClaim)
      [] vClaim.Version = "V2" -> migrateV2Claim(h, vClaim)
      [] vClaim.Version = "V3" -> migrateV3Claim(h, vClaim)

-----------------------------------------------------------------------------
(* Legacy records: the inputs of the migrators *)

\* characters of content digests: a hex digit and one that is not
DigestChars == {"a", "x"}
Digests == SeqsUpTo(DigestChars, MaxDigestLen)

\* payment addresses: valid base58 with a leading zero digit, and malformed
\* ('0' is not in the base58 alphabet)
Addresses == {<<"1", "z", "z">>, <<"2", "0">>}
Amounts == {1, 2}
FeeBranches == {None} \cup {Some([Amount |-> a, Address |-> s]) : a \in Amounts, s \in Addresses}
Fees == {None} \cup {Some([BTC |-> b, LBC |-> l, USD |-> u]) : b \in FeeBranches, l \in FeeBranches, u \in FeeBranches}

Languages == {"en", "xx"}

\* the strings the k-th decoded legacy record points to (Thumbnail *string,
\* LicenseURL *string): cell 2k-1 and cell 2k of the initial heap
ThumbnailCell(k) == 2 * k - 1
LicenseURLCell(k) == 2 * k
StringCells(n) ==
    [i \in 1..(2 * n) |-> [kind |-> "String", val |-> IF i % 2 = 1 THEN "thumbnail" ELSE "license-url"]]

\* a V1Claim value.  A V1Claim has no LicenseURL and no NSFW field.
V1Claim(lang, th, d, f) ==
    [Version |-> "V1", Author |-> "author", Description |-> "description",
     Language |-> lang, License |-> "license", Title |-> "title",
     Thumbnail |-> th, ContentType |-> "video/mp4",
     Sources |-> [LbrySDHash |-> d], Fee |-> f]

\* a V2Claim or V3Claim value (ver is "V2" or "V3")
V23Claim(ver, lang, th, d, f, lu, n) ==
    [Version |-> ver, Author |-> "author", Description |-> "description",
     Language |-> lang, License |-> "license", Title |-> "title",
     Thumbnail |-> th, ContentType |-> "video/mp4",
     Sources |-> [LbrySDHash |-> d], Fee |-> f,
     LicenseURL |-> lu, NSFW |-> n]

-----------------------------------------------------------------------------
(* The migrators as processes: one action per statement group *)

Calls == DOMAIN pc

NoReturn == [claim |-> NULL, err |-> "pending"]

\* pbClaim := newClaim()
NewClaim(c) ==
    /\ pc[c] = "start"
    /\ LET n == newClaim(heap)
       IN  /\ heap' = n.heap
           /\ pbClaim' = [pbClaim EXCEPT ![c] = n.ptr]
    /\ pc' = [pc EXCEPT ![c] = "sig"]
    /\ UNCHANGED <<rec, ret, mutated, cmdVars>>

\* pbClaim.PublisherSignature = nil
ClearSignature(c) ==
    /\ pc[c] = "sig"
    /\ heap' = clearSignature(heap, pbClaim[c])
    /\ pc' = [pc EXCEPT ![c] = "fee"]
    /\ UNCHANGED <<rec, pbClaim, ret, mutated, cmdVars>>

\* setFee(vClaim.Fee, pbClaim)
SetFee(c) ==
    /\ pc[c] = "fee"
    /\ heap' = setFee(heap, rec[c].Fee, pbClaim[c])
    /\ pc' = [pc EXCEPT ![c] = "meta"]
    /\ UNCHANGED <<rec, pbClaim, ret, mutated, cmdVars>>

\* language := ...; setMetaData(*pbClaim, ...)
SetMetaData(c) ==
    /\ pc[c] = "meta"
    /\ heap' = metaData(heap, rec[c], pbClaim[c])
    /\ pc' = [pc EXCEPT ![c] = "source"]
    /\ UNCHANGED <<rec, pbClaim, ret, mutated, cmdVars>>

\* the content type and the source type
SetSource(c) ==
    /\ pc[c] = "source"
    /\ heap' = setSource(heap, rec[c], pbClaim[c])
    /\ pc' = [pc EXCEPT ![c] = "digest"]
    /\ UNCHANGED <<rec, pbClaim, ret, mutated, cmdVars>>

\* src, err := hex.DecodeString(...); Source.Source = src; return pbClaim, err
DecodeDigest(c) ==
    /\ pc[c] = "digest"
    /\ LET r == decodeDigest(heap, rec[c], pbClaim[c])
       IN  /\ heap' = r.heap
           /\ ret' = [ret EXCEPT ![c] = [claim |-> r.claim, err |-> r.err]]
    /\ pc' = [pc EXCEPT ![c] = "done"]
    /\ UNCHANGED <<rec, pbClaim, mutated, cmdVars>>

\* the ytsync command is not running
CmdIdle ==
    /\ cmdpc = "idle"
    /\ args = [stopOnError |-> FALSE, maxTries |-> None, status |-> "", limit |-> 0,
               env |-> {}, blobsDir |-> FALSE, userErr |-> FALSE]
    /\ stopOnError = FALSE
    /\ maxTries = 0
    /\ syncStatus = ""
    /\ limit = 0
    /\ logged = ""
    /\ sm = "none"

\* one migrator call on one decoded legacy record
Init ==
    /\ heap = StringCells(1)
    /\ \E lang \in Languages, th \in {NULL, ThumbnailCell(1)}, d \in Digests, f \in Fees :
           \/ rec = <<V1Claim(lang, th, d, f)>>
           \/ \E ver \in {"V2", "V3"}, lu \in {NULL, LicenseURLCell(1)}, n \in BOOLEAN :
                  rec = <<V23Claim(ver, lang, th, d, f, lu, n)>>
    /\ pc = <<"start">>
    /\ pbClaim = <<NULL>>
    /\ ret = <<NoReturn>>
    /\ mutated = <<FALSE>>
    /\ CmdIdle

Next ==
    \/ \E c \in Calls : NewClaim(c)
    \/ \E c \in Calls : ClearSignature(c)
    \/ \E c \in Calls : SetFee(c)
    \/ \E c \in Calls : SetMetaData(c)
    \/ \E c \in Calls : SetSource(c)
    \/ \E c \in Calls : DecodeDigest(c)

Spec == Init /\ [][Next]_vars

-----------------------------------------------------------------------------
(* Several migrator calls interleaved, and the callers that own the result *)

ConcFee == Some([BTC |-> None, LBC |-> Some([Amount |-> 2, Address |-> <<"1", "z", "z">>]), USD |-> None])

\* the records the k-th decoded legacy record may be: one of each schema
\* version, with and without fee, thumbnail and license URL, and one with a
\* digest that does not decode
ConcRecords(k) ==
    { V1Claim("en", ThumbnailCell(k), <<"a", "a">>, ConcFee),
      V1Claim("en", NULL, <<"a", "a", "x">>, None),
      V23Claim("V2", "xx", ThumbnailCell(k), <<"a", "a">>, None, LicenseURLCell(k), TRUE),
      V23Claim("V3", "en", NULL, <<"a", "a">>, ConcFee, LicenseURLCell(k), FALSE) }

\* the caller of the finished call c assigns a field of the claim it got:
\* claim.Stream.Metadata.Title = &edited
WriteTitle(c) ==
    /\ pc[c] = "done"
    /\ \A d \in Calls : ~mutated[d]
    /\ heap' = [heap EXCEPT ![GetMetadataAddr(heap, heap[ret[c].claim])].Title = Some("edited")]
    /\ mutated' = [mutated EXCEPT ![c] = TRUE]
    /\ UNCHANGED <<rec, pc, pbClaim, ret, cmdVars>>

\* the caller of the finished call c writes the string its claim's
\* Thumbnail points to: *claim.Stream.Metadata.Thumbnail = edited
WriteThumbnail(c) ==
    /\ pc[c] = "done"
    /\ \A d \in Calls : ~mutated[d]
    /\ LET th == heap[GetMetadataAddr(heap, heap[ret[c].claim])].Thumbnail
       IN  /\ th # NULL
           /\ heap' = [heap EXCEPT ![th].val = "edited"]
    /\ mutated' = [mutated EXCEPT ![c] = TRUE]
    /\ UNCHANGED <<rec, pc, pbClaim, ret, cmdVars>>

\* the caller of the finished call c writes the string its claim's
\* LicenseUrl points to: *claim.Stream.Metadata.LicenseUrl = edited
WriteLicenseUrl(c) ==
    /\ pc[c] = "done"
    /\ \A d \in Calls : ~mutated[d]
    /\ LET lu == heap[GetMetadataAddr(heap, heap[ret[c].claim])].LicenseUrl
       IN  /\ lu # NULL
           /\ heap' = [heap EXCEPT ![lu].val = "edited"]
    /\ mutated' = [mutated EXCEPT ![c] = TRUE]
    /\ UNCHANGED <<rec, pc, pbClaim, ret, cmdVars>>

\* NumCalls calls; each is given a decoded legacy record of its own or a
\* record an earlier call is given too (the same record migrated again)
InitConc ==
    /\ heap = StringCells(NumCalls)
    /\ rec \in {f \in [1..NumCalls -> UNION {ConcRecords(k) : k \in 1..NumCalls}] :
                   \A c \in 1..NumCalls :
                       f[c] \in ConcRecords(c) \/ \E d \in 1..(c - 1) : f[c] = f[d]}
    /\ pc = [c \in 1..NumCalls |-> "start"]
    /\ pbClaim = [c \in 1..NumCalls |-> NULL]
    /\ ret = [c \in 1..NumCalls |-> NoReturn]
    /\ mutated = [c \in 1..NumCalls |-> FALSE]
    /\ CmdIdle

NextConc ==
    \/ \E c \in Calls : NewClaim(c)
    \/ \E c \in Calls : ClearSignature(c)
    \/ \E c \in Calls : SetFee(c)
    \/ \E c \in Calls : SetMetaData(c)
    \/ \E c \in Calls : SetSource(c)
    \/ \E c \in Calls : DecodeDigest(c)
    \/ \E c \in Calls : WriteTitle(c)
    \/ \E c \in Calls : WriteThumbnail(c)
    \/ \E c \in Calls : WriteLicenseUrl(c)

SpecConc == InitConc /\ [][NextConc]_vars

-----------------------------------------------------------------------------
(* package cmd: the ytsync command *)

defaultMaxTries == 3

\* sync.SyncStatuses
SyncStatuses == {"queued", "synced"}

\* the environment variables ytSync requires, in the order it checks them
RequiredEnv == <<"LBRY_API", "LBRY_API_TOKEN", "YOUTUBE_API_KEY", "AWS_S3_ID",
                 "AWS_S3_SECRET", "AWS_S3_REGION", "AWS_S3_BUCKET">>

errStatus == "status must be one of the following"
errExclusive == "--stop-on-error and --max-tries are mutually exclusive"
errMaxTries == "setting --max-tries less than 1 doesn't make sense"
errLimit == "setting --limit less than 0 (unlimited) doesn't make sense"
errEnv(i) == RequiredEnv[i]
errUser == "user.Current"

\* what the flag set leaves in maxTries: the value given with --max-tries,
\* the default when the flag is not given
flagMaxTries(given) == IF given = None THEN defaultMaxTries ELSE given[1]

\* func ytSync: the message of the check that makes it return early ("" when
\* none does) and whether the sync manager was created and started
ytSync(a, stop, tries, status, lim) ==
    IF status # "" /\ status \notin SyncStatuses THEN [logged |-> errStatus, sm |-> "none"]
    ELSE IF stop /\ tries # defaultMaxTries THEN [logged |-> errExclusive, sm |-> "none"]
    ELSE IF tries < 1 THEN [logged |-> errMaxTries, sm |-> "none"]
    ELSE IF lim < 0 THEN [logged |-> errLimit, sm |-> "none"]
    ELSE IF \E i \in 1..Len(RequiredEnv) : RequiredEnv[i] \notin a.env
    THEN [logged |-> errEnv(CHOOSE i \in 1..Len(RequiredEnv) :
                                /\ RequiredEnv[i] \notin a.env
                                /\ \A j \in 1..(i - 1) : RequiredEnv[j] \in a.env),
          sm |-> "none"]
    ELSE IF ~a.blobsDir /\ a.userErr THEN [logged |-> errUser, sm |-> "none"]
    ELSE [logged |-> "", sm |-> "started"]

\* cobra parses the command line into the package variables (func init
\* binds them to the flags with their defaults)
ParseFlags ==
    /\ cmdpc = "start"
    /\ stopOnError' = args.stopOnError
    /\ maxTries' = flagMaxTries(args.maxTries)
    /\ syncStatus' = args.status
    /\ limit' = args.limit
    /\ cmdpc' = "run"
    /\ UNCHANGED <<args, logged, sm, migVars>>

\* cobra runs ytSync
YtSync ==
    /\ cmdpc = "run"
    /\ LET r == ytSync(args, stopOnError, maxTries, syncStatus, limit)
       IN  /\ logged' = r.logged
           /\ sm' = r.sm
    /\ cmdpc' = "done"
    /\ UNCHANGED <<args, stopOnError, maxTries, syncStatus, limit, migVars>>

InitCmd ==
    /\ cmdpc = "start"
    /\ args \in [stopOnError : BOOLEAN,
                 maxTries : {None} \cup {Some(n) : n \in 0..MaxTriesArg},
                 status : {"", "queued", "bogus"},
                 limit : {-1, 0},
                 env : SUBSET {RequiredEnv[i] : i \in 1..Len(RequiredEnv)},
                 blobsDir : BOOLEAN,
                 userErr : BOOLEAN]
    /\ stopOnError = FALSE
    /\ maxTries = 0
    /\ syncStatus = ""
    /\ limit = 0
    /\ logged = ""
    /\ sm = "none"
    /\ heap = <<>>
    /\ rec = <<>>
    /\ pc = <<>>
    /\ pbClaim = <<>>
    /\ ret = <<>>
    /\ mutated = <<>>

NextCmd == ParseFlags \/ YtSync

SpecCmd == InitCmd /\ [][NextCmd]_vars

-----------------------------------------------------------------------------
(* Notions the properties are stated with *)

HexDigits == {hextable[i] : i \in 1..16} \cup {hextableUpper[i] : i \in 1..16}
\* s is a valid hexadecimal string: even length, hex digits only
ValidHex(s) == Len(s) % 2 = 0 /\ \A i \in 1..Len(s) : s[i] \in HexDigits

\* s is a well-formed base58 string
ValidBase58(s) == \A i \in 1..Len(s) : s[i] \in {b58alphabet[j] : j \in 1..58}

Populated(fee) == fee.BTC # None \/ fee.LBC # None \/ fee.USD # None

\* the objects of the claim call c holds (defined once newClaim has run)
ClaimOf(c) == heap[pbClaim[c]]
StreamOf(c) == heap[ClaimOf(c).Stream]
MetadataOf(c) == heap[StreamOf(c).Metadata]
SourceOf(c) == heap[StreamOf(c).Source]
FeeOf(c) == heap[MetadataOf(c).Fee]

Built(c) == pc[c] # "start"
FeeDone(c) == pc[c] \in {"meta", "source", "digest", "done"}
Returned(c) == pc[c] = "done"

\* the canonical Fee of call c is exactly branch b under currency cur
FeeMatches(c, b, cur) ==
    /\ MetadataOf(c).Fee # NULL
    /\ FeeOf(c).Currency = Some(cur)
    /\ FeeOf(c).Amount = Some(b.Amount)
    /\ FeeOf(c).Address = base58Decode(b.Address)

\* the version tags of the claim at address p, by sub-message
Tags(h, p) ==
    LET cl == h[p]
        st == h[cl.Stream]
        md == h[st.Metadata]
    IN  [Claim |-> cl.Version, Stream |-> st.Version, Metadata |-> md.Version,
         Source |-> h[st.Source].Version,
         Fee |-> IF md.Fee = NULL THEN None ELSE h[md.Fee].Version]

\* every version tag present is the fixed constant of its sub-message
TagsFixed(h, p) ==
    LET t == Tags(h, p)
    IN  /\ t.Claim \in {None, Some(Claim__0_0_1)}
        /\ t.Stream \in {None, Some(Stream__0_0_1)}
        /\ t.Metadata \in {None, Some(Metadata__0_1_0)}
        /\ t.Source \in {None, Some(Source__0_0_1)}
        /\ t.Fee \in {None, Some(Fee__0_0_1)}
        /\ t.Claim # None /\ t.Stream # None /\ t.Metadata # None /\ t.Source # None

\* the string a *string points to, None for nil
StringAt(h, a) == IF a = NULL THEN None ELSE Some(h[a].val)

\* the value of the claim at address p, pointers followed
ClaimValue(h, p) ==
    LET cl == h[p]
        st == h[cl.Stream]
        md == h[st.Metadata]
    IN  [Version |-> cl.Version,
         ClaimType |-> cl.ClaimType,
         PublisherSignature |-> IF cl.PublisherSignature = NULL THEN None
                                ELSE Some(h[cl.PublisherSignature]),
         StreamVersion |-> st.Version,
         Metadata |-> [md EXCEPT !.Thumbnail = StringAt(h, md.Thumbnail),
                                 !.LicenseUrl = StringAt(h, md.LicenseUrl),
                                 !.Fee = IF md.Fee = NULL THEN None ELSE Some(h[md.Fee])],
         Source |-> h[st.Source]]

\* the addresses of the sub-messages of the claim at address p
SubMessages(h, p) ==
    LET cl == h[p]
        st == h[cl.Stream]
    IN  ({p, cl.Stream, cl.PublisherSignature, st.Metadata, st.Source, h[st.Metadata].Fee}) \ {NULL}

-----------------------------------------------------------------------------
(* Properties *)

\* C1: the claim a migrator returns has a Fee attached to its Metadata if
\* and only if the legacy record's fee descriptor was present.
C1_FeeIffLegacyFee ==
    \A c \in Calls :
        Returned(c) => (heap[GetMetadataAddr(heap, heap[ret[c].claim])].Fee # NULL <=> rec[c].Fee # None)

\* C2: for a record whose content digest is not valid hexadecimal the
\* migrator returns a digest error and hands no claim back to the caller (so
\* none that carries a decoded prefix of the digest).
C2_BadDigestNoClaim ==
    \A c \in Calls :
        (Returned(c) /\ ~ValidHex(rec[c].Sources.LbrySDHash))
            => (ret[c].err # "nil" /\ ret[c].claim = NULL)

\* C3: once setFee has run on a present fee descriptor with a populated
\* branch, the canonical Fee has the currency, the amount and the
\* base58-decoded address of the first populated branch in the order BTC,
\* LBC, USD, whatever the other branches hold, for each schema version.
C3_FirstPopulatedBranch ==
    \A c \in Calls :
        (FeeDone(c) /\ rec[c].Fee # None) =>
            LET fee == rec[c].Fee[1]
            IN  /\ fee.BTC # None => FeeMatches(c, fee.BTC[1], "BTC")
                /\ (fee.BTC = None /\ fee.LBC # None) => FeeMatches(c, fee.LBC[1], "LBC")
                /\ (fee.BTC = None /\ fee.LBC = None /\ fee.USD # None)
                       => FeeMatches(c, fee.USD[1], "USD")

\* a V3 record with all three branches populated, BTC and LBC differing in
\* amount and address, migrated to a BTC fee with the decoded BTC address
C3_Witness ==
    \E c \in Calls :
        /\ Returned(c) /\ rec[c].Version = "V3" /\ rec[c].Fee # None
        /\ rec[c].Fee[1].BTC = Some([Amount |-> 1, Address |-> <<"1", "z", "z">>])
        /\ rec[c].Fee[1].LBC = Some([Amount |-> 2, Address |-> <<"2", "0">>])
        /\ rec[c].Fee[1].USD # None
        /\ FeeOf(c).Currency = Some("BTC")
        /\ FeeOf(c).Amount = Some(1)
        /\ FeeOf(c).Address = <<0, 13, 35>>

\* C4: when the fee descriptor is present with no populated branch, the
\* canonical Fee is LBC, amount 0, zero-length address, and the migration
\* fails only if the digest is bad.
C4_EmptyFeeDefaults ==
    \A c \in Calls :
        (rec[c].Fee # None /\ ~Populated(rec[c].Fee[1])) =>
            /\ FeeDone(c) =>
                   /\ MetadataOf(c).Fee # NULL
                   /\ FeeOf(c).Currency = Some("LBC")
                   /\ FeeOf(c).Amount = Some(0)
                   /\ FeeOf(c).Address = <<>>
            /\ (Returned(c) /\ ValidHex(rec[c].Sources.LbrySDHash)) => ret[c].err = "nil"

\* a migration of a present, empty fee descriptor that returned no error
C4_Witness ==
    \E c \in Calls :
        /\ Returned(c) /\ ret[c].err = "nil"
        /\ rec[c].Fee # None /\ ~Populated(rec[c].Fee[1])
        /\ FeeOf(c).Currency = Some("LBC") /\ FeeOf(c).Amount = Some(0)

\* C5: a migrator returns an error if and only if the content digest is not
\* valid hexadecimal; a malformed base58 address of the branch the fee is
\* taken from yields a zero-length address and no error of its own.
C5_ErrorIffBadDigest ==
    \A c \in Calls :
        Returned(c) =>
            /\ ret[c].err # "nil" <=> ~ValidHex(rec[c].Sources.LbrySDHash)
            /\ rec[c].Fee # None =>
                   LET fee == rec[c].Fee[1]
                       taken == IF fee.BTC # None THEN fee.BTC
                                ELSE IF fee.LBC # None THEN fee.LBC ELSE fee.USD
                   IN  (taken # None /\ ~ValidBase58(taken[1].Address))
                           => FeeOf(c).Address = <<>>

\* a migration that succeeded although the address of its fee is malformed
C5_Witness ==
    \E c \in Calls :
        /\ Returned(c) /\ rec[c].Fee # None
        /\ ret[c].err = "nil"
        /\ rec[c].Sources.LbrySDHash = <<"a", "a">>
        /\ rec[c].Fee[1].BTC = Some([Amount |-> 2, Address |-> <<"2", "0">>])
        /\ FeeOf(c).Address = <<>> /\ FeeOf(c).Amount = Some(2)

\* C6: in the returned claim the Metadata's author, description, license,
\* title and thumbnail are the legacy record's (the writes of setMetaData
\* through its by-value argument are visible); a V1 record gives NSFW false
\* and no license URL, a V2 or V3 record gives its own NSFW flag and license
\* URL (or its absence).
C6_MetadataFromRecord ==
    \A c \in Calls :
        Returned(c) =>
            LET md == heap[GetMetadataAddr(heap, heap[ret[c].claim])]
                r  == rec[c]
            IN  /\ md.Author = Some(r.Author)
                /\ md.Description = Some(r.Description)
                /\ md.License = Some(r.License)
                /\ md.Title = Some(r.Title)
                /\ md.Thumbnail = r.Thumbnail
                /\ StringAt(heap, md.Thumbnail) = StringAt(StringCells(1), r.Thumbnail)
                /\ r.Version = "V1" => (md.Nsfw = Some(FALSE) /\ md.LicenseUrl = NULL)
                /\ r.Version \in {"V2", "V3"} =>
                       /\ md.Nsfw = Some(r.NSFW)
                       /\ md.LicenseUrl = r.LicenseURL
                       /\ StringAt(heap, md.LicenseUrl) = StringAt(StringCells(1), r.LicenseURL)

\* a returned V2 claim with NSFW set, a license URL and a thumbnail
C6_Witness ==
    \E c \in Calls :
        /\ Returned(c) /\ rec[c].Version = "V2"
        /\ rec[c].NSFW /\ rec[c].LicenseURL # NULL /\ rec[c].Thumbnail # NULL
        /\ MetadataOf(c).Nsfw = Some(TRUE)
        /\ StringAt(heap, MetadataOf(c).LicenseUrl) = Some("license-url")
        /\ StringAt(heap, MetadataOf(c).Thumbnail) = Some("thumbnail")
        /\ MetadataOf(c).Author = Some("author")

\* C7 as stated: in every claim newClaim or a migrator produces, every
\* version tag present is its constant, the claim type is the stream type
\* and the source kind is lbry_sd_hash.
C7_TagsTypeAndKindAlways ==
    \A c \in Calls :
        Built(c) =>
            /\ TagsFixed(heap, pbClaim[c])
            /\ ClaimOf(c).ClaimType = Some(Claim_streamType)
            /\ SourceOf(c).SourceType = Some("lbry_sd_hash")

\* the state of a call's claim the tags property speaks of
C7_State ==
    \A c \in Calls :
        Built(c) =>
            /\ TagsFixed(heap, pbClaim[c])
            /\ ClaimOf(c).ClaimType = Some(Claim_streamType)
            /\ SourceOf(c).SourceType \in {None, Some("lbry_sd_hash")}
            /\ Returned(c) => SourceOf(c).SourceType = Some("lbry_sd_hash")

\* no step changes a tag, the claim type or a source kind that is set
C7_Step ==
    \A c \in Calls :
        Built(c) =>
            /\ Tags(heap', pbClaim[c]) = Tags(heap, pbClaim[c])
            /\ heap'[pbClaim[c]].ClaimType = heap[pbClaim[c]].ClaimType
            /\ SourceOf(c).SourceType # None
                   => heap'[GetSourceAddr(heap, ClaimOf(c))].SourceType = SourceOf(c).SourceType

\* C7, amended: in every claim newClaim or a migrator produces, for every
\* input, every version tag present is its fixed constant and the claim type
\* is the stream type; the source kind is unset in the skeleton newClaim
\* builds and is lbry_sd_hash in every claim a migrator returns; no step of a
\* migration after the skeleton is built changes a tag, the claim type or a
\* source kind that is set.
C7_TagsFixed == [](C7_State) /\ [][C7_Step]_vars

\* a returned claim of a record with a fee and a bad digest, tags in place
C7_Witness ==
    \E c \in Calls :
        /\ Returned(c) /\ rec[c].Fee # None /\ ret[c].err # "nil"
        /\ Tags(heap, ret[c].claim) =
               [Claim |-> Some("Claim._0_0_1"), Stream |-> Some("Stream._0_0_1"),
                Metadata |-> Some("Metadata._0_1_0"), Source |-> Some("Source._0_0_1"),
                Fee |-> Some("Fee._0_0_1")]
        /\ SourceOf(c).SourceType = Some("lbry_sd_hash")

\* C8: the skeleton newClaim builds has a Publisher Signature allocated; the
\* claim a migrator returns has none, for every record, bad digests included.
C8_SignatureAbsent ==
    \A c \in Calls :
        /\ pc[c] = "sig" =>
               /\ ClaimOf(c).PublisherSignature # NULL
               /\ heap[ClaimOf(c).PublisherSignature].kind = "Signature"
        /\ Returned(c) => heap[ret[c].claim].PublisherSignature = NULL

\* a returned claim of a record whose digest failed to decode, unsigned
C8_Witness ==
    \E c \in Calls :
        /\ Returned(c) /\ ret[c].err = "InvalidByteError"
        /\ ret[c].claim # NULL
        /\ heap[ret[c].claim].PublisherSignature = NULL

\* each finished call holds the claim and the error the migrator of its
\* record returns when it runs alone, as one sequential call
C9_AsAlone ==
    \A c \in Calls :
        (Returned(c) /\ \A d \in Calls : ~mutated[d]) =>
            LET alone == migrateClaim(StringCells(NumCalls), rec[c])
            IN  /\ ret[c].err = alone.err
                /\ ClaimValue(heap, ret[c].claim) = ClaimValue(alone.heap, alone.claim)

\* two finished calls hold claims in distinct sub-messages, equal in value
\* (and in error) when they were given the same record
C9_Distinct ==
    \A c, d \in Calls :
        (c # d /\ Returned(c) /\ Returned(d)) =>
            /\ SubMessages(heap, ret[c].claim) \cap SubMessages(heap, ret[d].claim) = {}
            /\ (rec[c] = rec[d] /\ \A e \in Calls : ~mutated[e]) =>
                   /\ ret[c].err = ret[d].err
                   /\ ClaimValue(heap, ret[c].claim) = ClaimValue(heap, ret[d].claim)

\* the strings a legacy record points to
RecordStrings(r) ==
    ({r.Thumbnail} \cup (IF r.Version = "V1" THEN {} ELSE {r.LicenseURL})) \ {NULL}

\* the caller of call c changes its claim in this step
Changes(c) == mutated'[c] /\ ~mutated[c]

\* a change to one returned claim changes no other returned claim
C9_Isolated ==
    \A c, d \in Calls :
        (c # d /\ Changes(c) /\ Returned(d))
            => ClaimValue(heap', ret[d].claim) = ClaimValue(heap, ret[d].claim)

\* a change to one returned claim changes another only by writing a string
\* both took from the one legacy record they were migrated from
C9_IsolatedButStrings ==
    \A c, d \in Calls :
        (c # d /\ Changes(c) /\ Returned(d)) =>
            \/ ClaimValue(heap', ret[d].claim) = ClaimValue(heap, ret[d].claim)
            \/ /\ rec[c] = rec[d]
               /\ \E a \in RecordStrings(rec[c]) : heap'[a] # heap[a]
               /\ \A a \in SubMessages(heap, ret[d].claim) : heap'[a] = heap[a]

\* C9 as stated: interleaved calls each return what they return alone, the
\* same record migrated twice gives equal claims in distinct sub-messages,
\* and changing one returned claim never changes another.
C9_NoSharedState == [](C9_AsAlone /\ C9_Distinct) /\ [][C9_Isolated]_vars

\* C9, amended: interleaved calls each return what they return alone, the
\* same record migrated twice gives equal claims (or the same error) in
\* distinct sub-messages, and assigning a field of one returned claim never
\* changes another; the strings behind Thumbnail and LicenseUrl are the
\* legacy record's own, so a write through one of these pointers shows in
\* every claim migrated from that same record, and in no other.
C9_OwnSkeleton == [](C9_AsAlone /\ C9_Distinct) /\ [][C9_IsolatedButStrings]_vars

\* two calls on the same record, both returned after interleaved steps, one
\* claim then changed by its caller, the other as it was returned
C9_Witness ==
    \E c, d \in Calls :
        /\ c # d /\ Returned(c) /\ Returned(d) /\ rec[c] = rec[d]
        /\ pbClaim[c] > pbClaim[d] /\ c < d
        /\ mutated[c] /\ ~mutated[d]
        /\ MetadataOf(c).Title = Some("edited")
        /\ MetadataOf(d).Title = Some("title")
        /\ LET alone == migrateClaim(StringCells(NumCalls), rec[d])
           IN  ClaimValue(heap, ret[d].claim) = ClaimValue(alone.heap, alone.claim)

\* C10: whenever ytSync runs with stop-on-error set and a --max-tries value
\* supplied by the user, whatever the value, it logs an error and returns
\* without creating or starting the sync manager.
C10_StopOnErrorExcludesMaxTries ==
    (cmdpc = "done" /\ args.stopOnError /\ args.maxTries # None)
        => (logged # "" /\ sm = "none")

=============================================================================
